---- MODULE Spec2Model ----
(***************************************************************************)
(* A model of VIT_TORCH.py: patchify, the construction of Myvit, its       *)
(* forward pass (with MyVitBlock.forward) and the training and test loops  *)
(* of main.                                                                *)
(*                                                                         *)
(* Tensors are modelled by their shape and, where a property is about the  *)
(* placement of data, by symbolic contents: the pixel at (idx, ch, r, col) *)
(* of the input batch is the tuple <<idx, ch, r, col>>, so that two pixels *)
(* are equal only if they are the same pixel.  Python's 0-based indices    *)
(* are kept; only flattened vectors are sequences (index k of Python is    *)
(* index k + 1 of the sequence).                                           *)
(***************************************************************************)
EXTENDS Integers, Sequences, FiniteSets, TLC

VARIABLES
    \* ---- patchify(images, n_patches) ----
    images_shape,   \* images.shape, <<n, c, h, w>>
    n_patches_arg,  \* the n_patches argument
    pf_pc,          \* position in patchify
    patches,        \* the patches tensor: [idx -> [position -> row]], <<>> before torch.zeros
    pf_writes,      \* how often patches[idx, position] was assigned
    pf_idx, pf_i, pf_j,   \* the three loop counters
    \* ---- Myvit.__init__ ----
    cfg,            \* the constructor's arguments
    init_pc,        \* position in Myvit.__init__
    model,          \* the attributes set so far (a record; "blocks" counts the blocks built)
    \* ---- Myvit.forward ----
    fw_pc,          \* position in forward
    fw_stages,      \* the computation stages begun so far, in order
    tokens,         \* the token tensor: [idx -> sequence of symbolic tokens]
    out,            \* the symbolic value of forward's variable out
    blk_pc,         \* position in MyVitBlock.forward
    blk_x,          \* the argument x of the running MyVitBlock.forward
    blk_out,        \* the variable out of the running MyVitBlock.forward
    blk_i,          \* index of the running block
    logits,         \* the classification Linear's output, [idx -> [class -> Int]]
    y_hat,          \* forward's return value, [idx -> [class -> fixed point]]
    \* ---- main ----
    main_pc,        \* position in main
    body_pos,       \* position in the body of the running loop
    phase,          \* "train" or "test"
    epoch, batch,   \* loop counters
    n_train, n_test,   \* len(train_loader), len(test_loader)
    params,         \* [name -> [value, requires_grad, grad]]
    opt_params,     \* the parameters handed to Adam
    batch_log       \* the steps of the current loop iteration, in order

pf_vars == <<images_shape, n_patches_arg, pf_pc, patches, pf_writes, pf_idx, pf_i, pf_j>>
init_vars == <<cfg, init_pc, model>>
fw_vars == <<fw_pc, fw_stages, tokens, out, blk_pc, blk_x, blk_out, blk_i, logits, y_hat>>
main_vars == <<main_pc, body_pos, phase, epoch, batch, n_train, n_test, params, opt_params, batch_log>>
vars == <<pf_vars, init_vars, fw_vars, main_vars>>

(***************************************************************************)
(* Bounds of the model.                                                    *)
(***************************************************************************)
MaxN == 2          \* images per batch: 1..MaxN
MaxC == 2          \* channels: 1..MaxC
MaxH == 4          \* height and width: 1..MaxH
MaxP == 3          \* n_patches: 1..MaxP
MaxBlocks == 2     \* n_blocks: 0..MaxBlocks
MaxHidden == 3     \* hidden_d: 1..MaxHidden
MaxHeads == 2      \* n_heads: 1..MaxHeads
FwMaxH == 2        \* forward pass: chw[1], chw[2] of the model: 1..FwMaxH
FwMaxIn == 3       \* forward pass: height and width of the input: 1..FwMaxIn
FwMaxP == 2        \* forward pass: n_patches: 1..FwMaxP
FwMaxBlocks == 2   \* forward pass: n_blocks: 0..FwMaxBlocks
FwMaxOut == 2      \* forward pass: out_d: 1..FwMaxOut
Scale == 1000      \* fixed point: the number of units that make the probability 1.0
MaxBatches == 2    \* len(train_loader), len(test_loader): 1..MaxBatches

\* forward pass: the values an entry of the classification layer's output takes
LogitValues == {-1, 2}

(***************************************************************************)
(* patchify                                                                *)
(***************************************************************************)
ShapeN(s) == s[1]
ShapeC(s) == s[2]
ShapeH(s) == s[3]
ShapeW(s) == s[4]

\* images[idx, ch, r, col]
Pixel(idx, ch, r, col) == <<idx, ch, r, col>>

\* An element of torch.zeros
Zero == <<>>

\* line 20: assert h == w
SquareAssertOff(h, w) == TRUE
SquareAssert(h, w) == h = w

\* line 22: the size of the last axis of patches, h * w // n_patches ** 2
PatchesLastDim(c, h, w, P) == (h * w) \div (P * P)

\* line 23: patch_size = h // n_patches
PatchSize(h, P) == h \div P

\* line 28: image[:, i*ps:(i+1)*ps, j*ps:(j+1)*ps].flatten() of image idx:
\* C order, channel outermost, then row, then column
PatchFlatten(idx, c, ps, i, j) ==
    [k \in 1..(c * ps * ps) |->
        Pixel(idx, (k - 1) \div (ps * ps),
                   i * ps + (((k - 1) % (ps * ps)) \div ps),
                   j * ps + ((k - 1) % ps))]

\* line 29: the position of cell (i, j) in the sequence
SeqPos(i, j, P) == i * P + j

\* line 29: an indexed assignment of a 1-d value to a row of d elements succeeds
\* when the value has d elements or one element (which is broadcast)
CanAssign(value, d) == Len(value) = d \/ Len(value) = 1

\* line 29: the row after the assignment
Assigned(value, d) ==
    IF Len(value) = d THEN value ELSE [k \in 1..d |-> value[1]]

PfTerminal == pf_pc \in {"return", "AssertionError", "RuntimeError"}

\* lines 19-20
PatchifyAssert ==
    /\ pf_pc = "assert"
    /\ pf_pc' = IF SquareAssert(ShapeH(images_shape), ShapeW(images_shape))
                THEN "alloc" ELSE "AssertionError"
    /\ UNCHANGED <<images_shape, n_patches_arg, patches, pf_writes, pf_idx, pf_i, pf_j>>
    /\ UNCHANGED <<init_vars, fw_vars, main_vars>>

\* lines 22-23
PatchifyAlloc ==
    /\ pf_pc = "alloc"
    /\ LET n == ShapeN(images_shape)
           P == n_patches_arg
           d == PatchesLastDim(ShapeC(images_shape), ShapeH(images_shape),
                               ShapeW(images_shape), P)
       IN /\ patches' = [idx \in 0..(n - 1) |->
                            [p \in 0..(P * P - 1) |-> [k \in 1..d |-> Zero]]]
          /\ pf_writes' = [idx \in 0..(n - 1) |-> [p \in 0..(P * P - 1) |-> 0]]
    /\ pf_idx' = 0 /\ pf_i' = 0 /\ pf_j' = 0
    /\ pf_pc' = "loop"
    /\ UNCHANGED <<images_shape, n_patches_arg>>
    /\ UNCHANGED <<init_vars, fw_vars, main_vars>>

\* lines 25-29: one iteration of the innermost loop
PatchifyAssign ==
    /\ pf_pc = "loop"
    /\ pf_idx < ShapeN(images_shape)
    /\ LET P == n_patches_arg
           ps == PatchSize(ShapeH(images_shape), P)
           d == PatchesLastDim(ShapeC(images_shape), ShapeH(images_shape),
                               ShapeW(images_shape), P)
           patch == PatchFlatten(pf_idx, ShapeC(images_shape), ps, pf_i, pf_j)
           pos == SeqPos(pf_i, pf_j, P)
           lastj == pf_j = P - 1
           lasti == pf_i = P - 1
       IN IF CanAssign(patch, d)
          THEN /\ patches' = [patches EXCEPT ![pf_idx][pos] = Assigned(patch, d)]
               /\ pf_writes' = [pf_writes EXCEPT ![pf_idx][pos] = @ + 1]
               /\ pf_j' = IF lastj THEN 0 ELSE pf_j + 1
               /\ pf_i' = IF lastj THEN (IF lasti THEN 0 ELSE pf_i + 1) ELSE pf_i
               /\ pf_idx' = IF lastj /\ lasti THEN pf_idx + 1 ELSE pf_idx
               /\ pf_pc' = "loop"
          ELSE /\ pf_pc' = "RuntimeError"
               /\ UNCHANGED <<patches, pf_writes, pf_idx, pf_i, pf_j>>
    /\ UNCHANGED <<images_shape, n_patches_arg>>
    /\ UNCHANGED <<init_vars, fw_vars, main_vars>>

\* line 30
PatchifyReturn ==
    /\ pf_pc = "loop"
    /\ pf_idx = ShapeN(images_shape)
    /\ pf_pc' = "return"
    /\ UNCHANGED <<images_shape, n_patches_arg, patches, pf_writes, pf_idx, pf_i, pf_j>>
    /\ UNCHANGED <<init_vars, fw_vars, main_vars>>

PatchifyStep == PatchifyAssert \/ PatchifyAlloc \/ PatchifyAssign \/ PatchifyReturn

\* the shape of the returned tensor
PatchesShape ==
    <<ShapeN(images_shape), n_patches_arg * n_patches_arg,
      Len(patches[0][0])>>

(***************************************************************************)
(* Myvit.__init__ (with MyVitBlock.__init__ and MyMSA.__init__)            *)
(***************************************************************************)
\* line 99: assert chw[1] % n_patches == 0
HeightAssert(cc) == cc.chw[2] % cc.n_patches = 0

\* line 100: assert chw[2] % n_patches == 0
WidthAssert(cc) == cc.chw[3] % cc.n_patches = 0

\* line 38 (MyMSA.__init__): assert d % n_heads == 0
MSAAssertOff(d, n_heads) == TRUE
MSAAssert(d, n_heads) == d % n_heads = 0

\* lines 101-104: input_d = int(chw[0] * patch_size[0] * patch_size[1]);
\* the two divisions are exact after the assertions of lines 99-100
InputD(cc) == cc.chw[1] * (cc.chw[2] \div cc.n_patches) * (cc.chw[3] \div cc.n_patches)

\* line 112: the shape of get_positional_embeddings(n_patches ** 2 + 1, hidden_d)
PosEmbedShape(cc) == <<cc.n_patches * cc.n_patches + 1, cc.hidden_d>>

InitTerminal == init_pc \in {"constructed", "AssertionError"}

\* lines 89-96
InitAttributes ==
    /\ init_pc = "attributes"
    /\ model' = [chw |-> cfg.chw, n_patches |-> cfg.n_patches, n_heads |-> cfg.n_heads,
                 hidden_d |-> cfg.hidden_d]
    /\ init_pc' = "assert_h"
    /\ UNCHANGED cfg
    /\ UNCHANGED <<pf_vars, fw_vars, main_vars>>

\* line 99
InitAssertHeight ==
    /\ init_pc = "assert_h"
    /\ init_pc' = IF HeightAssert(cfg) THEN "assert_w" ELSE "AssertionError"
    /\ UNCHANGED <<cfg, model>>
    /\ UNCHANGED <<pf_vars, fw_vars, main_vars>>

\* line 100
InitAssertWidth ==
    /\ init_pc = "assert_w"
    /\ init_pc' = IF WidthAssert(cfg) THEN "linear_mapper" ELSE "AssertionError"
    /\ UNCHANGED <<cfg, model>>
    /\ UNCHANGED <<pf_vars, fw_vars, main_vars>>

\* lines 101-105
InitLinearMapper ==
    /\ init_pc = "linear_mapper"
    /\ model' = model @@ [input_d |-> InputD(cfg)]
    /\ init_pc' = "class_token"
    /\ UNCHANGED cfg
    /\ UNCHANGED <<pf_vars, fw_vars, main_vars>>

\* line 108
InitClassToken ==
    /\ init_pc = "class_token"
    /\ model' = model @@ [class_token |-> <<1, cfg.hidden_d>>]
    /\ init_pc' = "pos_embed"
    /\ UNCHANGED cfg
    /\ UNCHANGED <<pf_vars, fw_vars, main_vars>>

\* lines 111-113
InitPosEmbed ==
    /\ init_pc = "pos_embed"
    /\ model' = model @@ [pos_embed |-> PosEmbedShape(cfg), blocks |-> 0]
    /\ init_pc' = "blocks"
    /\ UNCHANGED cfg
    /\ UNCHANGED <<pf_vars, fw_vars, main_vars>>

\* line 116, one element of the list: MyVitBlock(hidden_d, n_heads), whose
\* __init__ (lines 67-79) constructs MyMSA(hidden_d, n_heads) (lines 33-45)
InitBlock ==
    /\ init_pc = "blocks"
    /\ model.blocks < cfg.n_blocks
    /\ IF MSAAssert(cfg.hidden_d, cfg.n_heads)
       THEN /\ model' = [model EXCEPT !.blocks = @ + 1]
            /\ init_pc' = "blocks"
       ELSE /\ init_pc' = "AssertionError"
            /\ UNCHANGED model
    /\ UNCHANGED cfg
    /\ UNCHANGED <<pf_vars, fw_vars, main_vars>>

\* lines 119-122, after the last block
InitMlp ==
    /\ init_pc = "blocks"
    /\ model.blocks = cfg.n_blocks
    /\ model' = model @@ [out_d |-> cfg.out_d]
    /\ init_pc' = "constructed"
    /\ UNCHANGED cfg
    /\ UNCHANGED <<pf_vars, fw_vars, main_vars>>

InitStep ==
    \/ InitAttributes \/ InitAssertHeight \/ InitAssertWidth \/ InitLinearMapper
    \/ InitClassToken \/ InitPosEmbed \/ InitBlock \/ InitMlp

\* the constructor's arguments
Cfgs(maxc, maxh, maxp, maxb, maxhid, maxheads, outs) ==
    [chw : (1..maxc) \X (1..maxh) \X (1..maxh), n_patches : 1..maxp,
     n_blocks : 0..maxb, hidden_d : 1..maxhid, n_heads : 1..maxheads, out_d : outs]

(***************************************************************************)
(* MyVitBlock.forward.  A tensor computed by a layer is the symbolic term  *)
(* <<layer, block index, argument>>; the block index tells the layers of   *)
(* different blocks, which have parameters of their own, apart.            *)
(***************************************************************************)
Add(a, b) == <<"add", a, b>>
Norm1(b, x) == <<"norm1", b, x>>       \* line 72
Norm2(b, x) == <<"norm2", b, x>>       \* line 74
Mhsa(b, x) == <<"mhsa", b, x>>         \* lines 47-64, MyMSA.forward
Mlp(b, x) == <<"mlp", b, x>>           \* lines 75-79

\* line 82: out = x + self.mhsa(self.norm1(x))
BlockFirst(b, x) == Add(x, Mhsa(b, Norm1(b, x)))

\* line 83: out = out + self.mlp(self.norm2(out)), o the value of out
BlockSecondFromX(b, x, o) == Add(x, Mlp(b, Norm2(b, x)))
BlockSecond(b, x, o) == Add(o, Mlp(b, Norm2(b, o)))

\* line 82
BlockAttention ==
    /\ blk_pc = "attention"
    /\ blk_out' = BlockFirst(blk_i, blk_x)
    /\ blk_pc' = "mlp"
    /\ UNCHANGED <<fw_pc, fw_stages, tokens, out, blk_x, blk_i, logits, y_hat>>
    /\ UNCHANGED <<pf_vars, init_vars, main_vars>>

\* line 83
BlockMlp ==
    /\ blk_pc = "mlp"
    /\ blk_out' = BlockSecond(blk_i, blk_x, blk_out)
    /\ blk_pc' = "return"
    /\ UNCHANGED <<fw_pc, fw_stages, tokens, out, blk_x, blk_i, logits, y_hat>>
    /\ UNCHANGED <<pf_vars, init_vars, main_vars>>

(***************************************************************************)
(* Myvit.forward                                                           *)
(***************************************************************************)
\* line 108: the one class token of the model
ClassToken == <<"class_token">>

\* line 131: self.linear_mapper applied to one flattened patch
LinearMapper(row) == <<"linear_mapper", row>>

\* line 134: torch.vstack((self.class_token, tokens[i]))
VStackTokensFirst(t) == t \o <<ClassToken>>
VStack(t) == <<ClassToken>> \o t

\* lines 111-112: row k of the positional table
PosEmbedRow(k) == <<"pos_embed", k>>

\* lines 137-138: tokens + pos_embed, for one image
AddPosEmbed(t) == [k \in 1..Len(t) |-> Add(t[k], PosEmbedRow(k - 1))]

\* line 145: out[:, 0]
Select0(o) == <<"select", 0, o>>

RECURSIVE SumOver(_, _)
SumOver(f, S) ==
    IF S = {} THEN 0
    ELSE LET k == CHOOSE e \in S : TRUE IN f[k] + SumOver(f, S \ {k})

\* the largest element of a vector
MaxOf(f) == CHOOSE v \in {f[k] : k \in DOMAIN f} : \A k \in DOMAIN f : f[k] <= v

\* nn.Softmax in fixed point, of one vector of integer logits: the exponential
\* (to base 2) of each entry less the largest, over the sum of these; GuardBits
\* binary places below the largest entry's exponential are kept
GuardBits == 4
ExpShifted(x, top) == IF top - x > GuardBits THEN 0 ELSE 2 ^ (GuardBits - (top - x))
SoftmaxVector(f) ==
    LET e == [k \in DOMAIN f |-> ExpShifted(f[k], MaxOf(f))]
    IN [k \in DOMAIN f |-> (e[k] * Scale) \div SumOver(e, DOMAIN f)]

\* nn.Softmax(dim=0) of a matrix [i -> [k -> Int]]: over the images
SoftmaxDim0(m) ==
    [i \in DOMAIN m |-> [k \in DOMAIN m[i] |->
        SoftmaxVector([i2 \in DOMAIN m |-> m[i2][k]])[i]]]

\* line 121: nn.Softmax(dim=-1) of a matrix [i -> [k -> Int]]: over the classes
Softmax(m) == [i \in DOMAIN m |-> SoftmaxVector(m[i])]

\* the computation stages begun so far; patch extraction begins with line 22
PatchExtractionBegun == pf_pc \in {"loop", "return", "RuntimeError"}
Stages == (IF PatchExtractionBegun THEN <<"patchify">> ELSE <<>>) \o fw_stages

FwFailed == fw_pc \in {"AssertionError", "RuntimeError"}
FwTerminal == FwFailed \/ fw_pc = "done"

\* the batches the model is called on
FwInputs == (1..MaxN) \X (1..MaxC) \X (1..FwMaxIn) \X (1..FwMaxIn)

\* lines 124-127: forward is called on a batch and calls patchify
FwCall ==
    /\ fw_pc = "start"
    /\ init_pc = "constructed"
    /\ images_shape' \in FwInputs
    /\ n_patches_arg' = model.n_patches
    /\ pf_pc' = "assert"
    /\ fw_pc' = "patchify"
    /\ UNCHANGED <<patches, pf_writes, pf_idx, pf_i, pf_j>>
    /\ UNCHANGED <<fw_stages, tokens, out, blk_pc, blk_x, blk_out, blk_i, logits, y_hat>>
    /\ UNCHANGED <<init_vars, main_vars>>

\* line 127: patchify raised
FwPatchifyRaises ==
    /\ fw_pc = "patchify"
    /\ pf_pc \in {"AssertionError", "RuntimeError"}
    /\ fw_pc' = pf_pc
    /\ UNCHANGED pf_vars
    /\ UNCHANGED <<fw_stages, tokens, out, blk_pc, blk_x, blk_out, blk_i, logits, y_hat>>
    /\ UNCHANGED <<init_vars, main_vars>>

\* line 131: nn.Linear(input_d, hidden_d) takes rows of input_d elements
FwLinear ==
    /\ fw_pc = "patchify"
    /\ pf_pc = "return"
    /\ fw_stages' = Append(fw_stages, "linear_mapper")
    /\ IF Len(patches[0][0]) = model.input_d
       THEN /\ tokens' = [idx \in DOMAIN patches |->
                            [p \in 1..(model.n_patches * model.n_patches) |->
                                LinearMapper(patches[idx][p - 1])]]
            /\ fw_pc' = "class_token"
       ELSE /\ fw_pc' = "RuntimeError"
            /\ UNCHANGED tokens
    /\ UNCHANGED pf_vars
    /\ UNCHANGED <<out, blk_pc, blk_x, blk_out, blk_i, logits, y_hat>>
    /\ UNCHANGED <<init_vars, main_vars>>

\* line 134
FwClassToken ==
    /\ fw_pc = "class_token"
    /\ fw_stages' = Append(fw_stages, "class_token")
    /\ tokens' = [idx \in DOMAIN tokens |-> VStack(tokens[idx])]
    /\ fw_pc' = "pos_embed"
    /\ UNCHANGED pf_vars
    /\ UNCHANGED <<out, blk_pc, blk_x, blk_out, blk_i, logits, y_hat>>
    /\ UNCHANGED <<init_vars, main_vars>>

\* lines 137-138
FwPosEmbed ==
    /\ fw_pc = "pos_embed"
    /\ fw_stages' = Append(fw_stages, "pos_embed")
    /\ out' = <<"tensor", [idx \in DOMAIN tokens |-> AddPosEmbed(tokens[idx])]>>
    /\ blk_i' = 0
    /\ fw_pc' = "blocks"
    /\ UNCHANGED pf_vars
    /\ UNCHANGED <<tokens, blk_pc, blk_x, blk_out, logits, y_hat>>
    /\ UNCHANGED <<init_vars, main_vars>>

\* lines 141-142: block(out) is called
FwBlockCall ==
    /\ fw_pc = "blocks"
    /\ blk_pc = "idle"
    /\ blk_i < model.blocks
    /\ fw_stages' = Append(fw_stages, "block")
    /\ blk_x' = out
    /\ blk_pc' = "attention"
    /\ UNCHANGED pf_vars
    /\ UNCHANGED <<fw_pc, tokens, out, blk_out, blk_i, logits, y_hat>>
    /\ UNCHANGED <<init_vars, main_vars>>

\* lines 84 and 142: the block returns and out is assigned
FwBlockReturn ==
    /\ fw_pc = "blocks"
    /\ blk_pc = "return"
    /\ out' = blk_out
    /\ blk_i' = blk_i + 1
    /\ blk_pc' = "idle"
    /\ UNCHANGED pf_vars
    /\ UNCHANGED <<fw_pc, fw_stages, tokens, blk_x, blk_out, logits, y_hat>>
    /\ UNCHANGED <<init_vars, main_vars>>

\* line 145
FwSelect ==
    /\ fw_pc = "blocks"
    /\ blk_pc = "idle"
    /\ blk_i = model.blocks
    /\ fw_stages' = Append(fw_stages, "select")
    /\ out' = Select0(out)
    /\ fw_pc' = "mlp"
    /\ UNCHANGED pf_vars
    /\ UNCHANGED <<tokens, blk_pc, blk_x, blk_out, blk_i, logits, y_hat>>
    /\ UNCHANGED <<init_vars, main_vars>>

\* line 147 (the layers of lines 119-122): the Linear layer's output is any
\* matrix of one row per image and out_d columns
FwMlp ==
    /\ fw_pc = "mlp"
    /\ fw_stages' = Append(fw_stages, "mlp")
    /\ \E lg \in [DOMAIN tokens -> [0..(model.out_d - 1) -> LogitValues]] :
          /\ logits' = lg
          /\ y_hat' = Softmax(lg)
    /\ fw_pc' = "done"
    /\ UNCHANGED pf_vars
    /\ UNCHANGED <<tokens, out, blk_pc, blk_x, blk_out, blk_i>>
    /\ UNCHANGED <<init_vars, main_vars>>

FwStep ==
    \/ FwCall \/ FwPatchifyRaises \/ FwLinear \/ FwClassToken \/ FwPosEmbed
    \/ FwBlockCall \/ FwBlockReturn \/ FwSelect \/ FwMlp

BlockStep == BlockAttention \/ BlockMlp

(***************************************************************************)
(* Specifications                                                          *)
(***************************************************************************)
PfIdle ==
    /\ images_shape = <<>> /\ n_patches_arg = 0 /\ pf_pc = "idle"
    /\ patches = <<>> /\ pf_writes = <<>>
    /\ pf_idx = 0 /\ pf_i = 0 /\ pf_j = 0

InitIdle == cfg = <<>> /\ init_pc = "idle" /\ model = <<>>

FwIdle ==
    /\ fw_pc = "idle" /\ fw_stages = <<>> /\ tokens = <<>> /\ out = <<>>
    /\ blk_pc = "idle" /\ blk_x = <<>> /\ blk_out = <<>> /\ blk_i = 0
    /\ logits = <<>> /\ y_hat = <<>>

MainIdle ==
    /\ main_pc = "idle" /\ body_pos = 0 /\ phase = "none" /\ epoch = 0 /\ batch = 0
    /\ n_train = 0 /\ n_test = 0 /\ params = <<>> /\ opt_params = {}
    /\ batch_log = <<>>

\* patchify, called on a batch of any shape
PatchifyInit ==
    /\ images_shape \in (1..MaxN) \X (1..MaxC) \X (1..MaxH) \X (1..MaxH)
    /\ n_patches_arg \in 1..MaxP
    /\ pf_pc = "assert"
    /\ patches = <<>> /\ pf_writes = <<>>
    /\ pf_idx = 0 /\ pf_i = 0 /\ pf_j = 0
    /\ InitIdle /\ FwIdle /\ MainIdle

PatchifyNext == PatchifyStep

SpecPatchify == PatchifyInit /\ [][PatchifyNext]_vars

\* Myvit(chw, n_patches, n_blocks, hidden_d, n_heads, out_d)
ConstructInit ==
    /\ cfg \in Cfgs(MaxC, MaxH, MaxP, MaxBlocks, MaxHidden, MaxHeads, {10})
    /\ init_pc = "attributes"
    /\ model = <<>>
    /\ PfIdle /\ FwIdle /\ MainIdle

ConstructNext == InitStep

SpecConstruct == ConstructInit /\ [][ConstructNext]_vars

\* a model is constructed and, if that succeeds, called on a batch of any shape
ForwardInit ==
    /\ cfg \in Cfgs(MaxC, FwMaxH, FwMaxP, FwMaxBlocks, 2, 2, 1..FwMaxOut)
    /\ init_pc = "attributes"
    /\ model = <<>>
    /\ PfIdle
    /\ fw_pc = "start" /\ fw_stages = <<>> /\ tokens = <<>> /\ out = <<>>
    /\ blk_pc = "idle" /\ blk_x = <<>> /\ blk_out = <<>> /\ blk_i = 0
    /\ logits = <<>> /\ y_hat = <<>>
    /\ MainIdle

ForwardNext == InitStep \/ PatchifyStep \/ FwStep \/ BlockStep

SpecForward == ForwardInit /\ [][ForwardNext]_vars

(***************************************************************************)
(* Claims about patchify, under SpecPatchify                               *)
(***************************************************************************)
InN == ShapeN(images_shape)
InC == ShapeC(images_shape)
InH == ShapeH(images_shape)
InW == ShapeW(images_shape)

\* the pixels of grid cell (i, j) of image idx, as the claim C2 orders them:
\* element ch * s * s + r * s + col is pixel (ch, i * s + r, j * s + col)
CellInOrder(row, idx, i, j, c, s) ==
    /\ Len(row) = c * s * s
    /\ \A ch \in 0..(c - 1) : \A r \in 0..(s - 1) : \A col \in 0..(s - 1) :
          row[ch * s * s + r * s + col + 1] = Pixel(idx, ch, i * s + r, j * s + col)

\* the places of the returned tensor that hold pixel px of image idx
PlacesOf(idx, px) ==
    {pk \in (DOMAIN patches[idx]) \X (1..Len(patches[idx][0])) :
        patches[idx][pk[1]][pk[2]] = px}

\* C1: for a square batch (N, C, H, W) with H divisible by P and any C >= 1,
\* patchify returns a tensor of shape (N, P^2, C * (H / P)^2).
C1_PatchifyShape ==
    (PfTerminal /\ InH = InW /\ InH % n_patches_arg = 0)
        => /\ pf_pc = "return"
           /\ PatchesShape = <<InN, n_patches_arg * n_patches_arg,
                               InC * (InH \div n_patches_arg) * (InH \div n_patches_arg)>>

\* C2: for a square batch with H divisible by P, patchify returns with position
\* i * P + j of image n holding exactly the pixels of cell (i, j), channel-major,
\* then row, then column; every position is written exactly once and every
\* pixel of the image is in exactly one patch.
C2_PatchPlacement ==
    (PfTerminal /\ InH = InW /\ InH % n_patches_arg = 0)
        => /\ pf_pc = "return"
           /\ \A idx \in 0..(InN - 1) :
                /\ \A i \in 0..(n_patches_arg - 1) : \A j \in 0..(n_patches_arg - 1) :
                      /\ pf_writes[idx][i * n_patches_arg + j] = 1
                      /\ CellInOrder(patches[idx][i * n_patches_arg + j], idx, i, j,
                                     InC, InH \div n_patches_arg)
                /\ \A ch \in 0..(InC - 1) : \A r \in 0..(InH - 1) : \A col \in 0..(InW - 1) :
                      Cardinality(PlacesOf(idx, Pixel(idx, ch, r, col))) = 1

\* C3, as stated: patchify fails, returning no result, whenever the height
\* differs from the width or the height is not divisible by P.
C3_FailsUnlessSquareDivisible ==
    (PfTerminal /\ (InH # InW \/ InH % n_patches_arg # 0)) => pf_pc # "return"

\* C3, amended: patchify fails on its assertion, before the tensor is allocated,
\* exactly when the height differs from the width.
C3_FailsOnAssertIffNotSquare ==
    /\ InH # InW => (pf_pc \in {"assert", "AssertionError"} /\ patches = <<>>)
    /\ pf_pc = "AssertionError" => InH # InW

C3_Witness == pf_pc = "AssertionError" /\ InH # InW /\ InH % n_patches_arg = 0

(***************************************************************************)
(* Claims about Myvit.__init__, under SpecConstruct                        *)
(***************************************************************************)
\* C4, as stated: for every choice of parameters, any n_blocks >= 0 included,
\* with hidden_d not divisible by n_heads, construction fails.
C4_FailsForAnyBlocks ==
    (InitTerminal /\ cfg.hidden_d % cfg.n_heads # 0) => init_pc = "AssertionError"

\* C4, amended: for every choice of parameters with n_blocks >= 1 and hidden_d
\* not divisible by n_heads, construction fails and no model is produced.
C4_FailsWithBlocks ==
    (cfg.hidden_d % cfg.n_heads # 0 /\ cfg.n_blocks >= 1)
        => /\ init_pc # "constructed"
           /\ InitTerminal => init_pc = "AssertionError"
           /\ "out_d" \notin DOMAIN model
           /\ "blocks" \in DOMAIN model => model.blocks = 0

C4_Witness ==
    /\ init_pc = "AssertionError"
    /\ HeightAssert(cfg) /\ WidthAssert(cfg)
    /\ cfg.hidden_d % cfg.n_heads # 0 /\ cfg.n_blocks >= 1

(***************************************************************************)
(* Claims about Myvit.forward and MyVitBlock.forward, under SpecForward    *)
(***************************************************************************)
\* C5, as stated: a forward pass that fails has failed on a precondition check
\* before any computation (patch extraction, linear embedding, ...) has begun.
C5_FailsBeforeComputation == FwFailed => Stages = <<>>

\* C5, amended: a forward pass that fails has failed before any computation
\* has begun exactly when the input is not square (patchify's assertion); a
\* square input that is rejected is rejected part-way, after patch extraction
\* has begun.
C5_FailsEarlyIffNotSquare ==
    FwFailed =>
        /\ (Stages = <<>>) <=> (InH # InW)
        /\ InH # InW => fw_pc = "AssertionError"
        /\ InH = InW => (fw_pc = "RuntimeError" /\ Stages[1] = "patchify")

\* an input of the configured channel count whose height and width differ from
\* the configured chw is rejected at the linear embedding
C5_Witness ==
    /\ fw_pc = "RuntimeError"
    /\ Stages = <<"patchify", "linear_mapper">>
    /\ InC = cfg.chw[1] /\ InH = InW /\ InH # cfg.chw[2]

\* C7: a successful forward pass on N images returns N rows of out_d entries,
\* each row non-negative and summing to 1 within the tolerance of the
\* arithmetic (here one unit of the last place for each entry).
C7_OutputIsDistribution ==
    fw_pc = "done" =>
        /\ DOMAIN y_hat = 0..(InN - 1)
        /\ \A idx \in DOMAIN y_hat :
              /\ DOMAIN y_hat[idx] = 0..(cfg.out_d - 1)
              /\ \A k \in DOMAIN y_hat[idx] : y_hat[idx][k] >= 0
              /\ SumOver(y_hat[idx], DOMAIN y_hat[idx]) <= Scale
              /\ SumOver(y_hat[idx], DOMAIN y_hat[idx]) > Scale - cfg.out_d

C7_Witness ==
    /\ fw_pc = "done" /\ InN = 2 /\ cfg.out_d = 2
    /\ logits[0][0] # logits[0][1] /\ logits[0] # logits[1]

\* the stages of a complete pass through nb blocks
RECURSIVE BlockStages(_)
BlockStages(nb) == IF nb = 0 THEN <<>> ELSE <<"block">> \o BlockStages(nb - 1)

StageOrder(nb) ==
    <<"patchify", "linear_mapper", "class_token", "pos_embed">>
        \o BlockStages(nb) \o <<"select", "mlp">>

\* the output of blocks 0..nb-1 applied in turn to x
RECURSIVE BlocksOutput(_, _)
BlocksOutput(nb, x) ==
    IF nb = 0 THEN x
    ELSE LET y == BlocksOutput(nb - 1, x)
             z == <<"add", y, <<"mhsa", nb - 1, <<"norm1", nb - 1, y>>>>>>
         IN <<"add", z, <<"mlp", nb - 1, <<"norm2", nb - 1, z>>>>>>

\* the pixels of image idx that lie in grid cell (i, j), s the cell's side
InCell(px, idx, i, j, s) ==
    /\ px[1] = idx
    /\ px[3] \in (i * s)..((i + 1) * s - 1)
    /\ px[4] \in (j * s)..((j + 1) * s - 1)

\* C8: the stages of a forward pass occur in the order patchify, linear
\* embedding, class-token prepend, positional addition, blocks, class-token
\* extraction, head; every sequence has P^2 + 1 tokens, the one class token at
\* index 0 and patch (i, j) at index 1 + i * P + j; the positional table is
\* added to the sequence with the class token in it; and the head reads index
\* 0 of the last block's output.
C8_ForwardOrder ==
    LET P == model.n_patches
        s == InH \div P
    IN
    /\ fw_pc # "idle" =>
          /\ Len(Stages) <= Len(StageOrder(cfg.n_blocks))
          /\ Stages = SubSeq(StageOrder(cfg.n_blocks), 1, Len(Stages))
    /\ fw_pc \in {"pos_embed", "blocks", "mlp", "done"} =>
          \A idx \in 0..(InN - 1) :
              /\ Len(tokens[idx]) = P * P + 1
              /\ tokens[idx][1] = ClassToken
              /\ \A i \in 0..(P - 1) : \A j \in 0..(P - 1) :
                    /\ tokens[idx][1 + i * P + j + 1][1] = "linear_mapper"
                    /\ \A k \in 1..Len(tokens[idx][1 + i * P + j + 1][2]) :
                          InCell(tokens[idx][1 + i * P + j + 1][2][k], idx, i, j, s)
    /\ fw_pc \in {"mlp", "done"} =>
          /\ out[1] = "select" /\ out[2] = 0
          /\ out[3] = BlocksOutput(cfg.n_blocks,
                 <<"tensor", [idx \in 0..(InN - 1) |->
                     [k \in 1..(P * P + 1) |->
                         <<"add", tokens[idx][k], <<"pos_embed", k - 1>>>>]]>>)

C8_Witness ==
    /\ fw_pc = "done" /\ InN = 2 /\ model.n_patches = 2 /\ cfg.n_blocks >= 1
    /\ InH = 2

\* C9: the block computes x' = x + MHSA(LayerNorm1(x)) and then
\* out = x' + MLP(LayerNorm2(x')).
C9_BlockPreNormResidual ==
    LET b == blk_i
        x1 == <<"add", blk_x, <<"mhsa", b, <<"norm1", b, blk_x>>>>>>
    IN /\ blk_pc = "mlp" => blk_out = x1
       /\ blk_pc = "return" => blk_out = <<"add", x1, <<"mlp", b, <<"norm2", b, x1>>>>>>

C9_Witness == blk_pc = "return" /\ blk_i = 1

(***************************************************************************)
(* main: the model of line 169, the optimizer, the training loop and the   *)
(* test loop.  A parameter is [value, requires_grad, grad]: value counts   *)
(* the updates applied to the tensor since construction (0: the tensor as  *)
(* constructed), grad is "None" or "set".                                  *)
(***************************************************************************)
\* line 170
N_EPOCHS == 5

\* the nn.Parameter and sub-module attributes of Myvit (lines 105, 108, 111, 116, 119)
ParamNames == {"linear_mapper", "class_token", "pos_embed", "blocks", "mlp"}

\* requires_grad after __init__: True by default, False for pos_embed (line 113)
RequiresGradAll(name) == TRUE
RequiresGrad(name) == name # "pos_embed"

\* line 174: model.parameters() yields every registered nn.Parameter; pos_embed
\* is one (line 111), whatever its requires_grad
ModelParameters == ParamNames

\* lines 181-187 and 197-202: the bodies of the two loops
TrainBodyStepFirst == <<"forward", "loss", "zero_grad", "step", "backward">>
TrainBody == <<"forward", "loss", "zero_grad", "backward", "step">>
TestBody == <<"forward", "loss">>

Body == IF phase = "train" THEN TrainBody ELSE TestBody
NBatches == IF phase = "train" THEN n_train ELSE n_test
AtStep(name) == main_pc = "body" /\ body_pos <= Len(Body) /\ Body[body_pos] = name

\* lines 124-147: forward assigns to no parameter
ForwardEffect(ps) == ps

\* line 185: optimizer.zero_grad()
ZeroGrad(ps) ==
    [name \in DOMAIN ps |->
        IF name \in opt_params THEN [ps[name] EXCEPT !.grad = "None"] ELSE ps[name]]

\* line 186: loss.backward() gives a gradient to the parameters that require one
Backward(ps) ==
    [name \in DOMAIN ps |->
        IF ps[name].requires_grad THEN [ps[name] EXCEPT !.grad = "set"] ELSE ps[name]]

\* line 187: Adam.step() updates its parameters that have a gradient
AdamStep(ps) ==
    [name \in DOMAIN ps |->
        IF name \in opt_params /\ ps[name].grad # "None"
        THEN [ps[name] EXCEPT !.value = @ + 1] ELSE ps[name]]

\* line 169
MainModel ==
    /\ main_pc = "model"
    /\ params' = [name \in ParamNames |->
                    [value |-> 0, requires_grad |-> RequiresGrad(name), grad |-> "None"]]
    /\ main_pc' = "optimizer"
    /\ UNCHANGED <<body_pos, phase, epoch, batch, n_train, n_test, opt_params, batch_log>>
    /\ UNCHANGED <<pf_vars, init_vars, fw_vars>>

\* lines 174-176
MainOptimizer ==
    /\ main_pc = "optimizer"
    /\ opt_params' = ModelParameters
    /\ phase' = "train" /\ epoch' = 0 /\ batch' = 0 /\ body_pos' = 1
    /\ main_pc' = "body"
    /\ UNCHANGED <<n_train, n_test, params, batch_log>>
    /\ UNCHANGED <<pf_vars, init_vars, fw_vars>>

\* lines 181 and 197: y_hat = model(x)
MainForward ==
    /\ AtStep("forward")
    /\ params' = ForwardEffect(params)
    /\ batch_log' = Append(batch_log, "forward")
    /\ body_pos' = body_pos + 1
    /\ UNCHANGED <<main_pc, phase, epoch, batch, n_train, n_test, opt_params>>
    /\ UNCHANGED <<pf_vars, init_vars, fw_vars>>

\* lines 182-184 and 198-202: the loss and the running sums
MainLoss ==
    /\ AtStep("loss")
    /\ batch_log' = Append(batch_log, "loss")
    /\ body_pos' = body_pos + 1
    /\ UNCHANGED <<main_pc, phase, epoch, batch, n_train, n_test, params, opt_params>>
    /\ UNCHANGED <<pf_vars, init_vars, fw_vars>>

\* line 185
MainZeroGrad ==
    /\ AtStep("zero_grad")
    /\ params' = ZeroGrad(params)
    /\ batch_log' = Append(batch_log, "zero_grad")
    /\ body_pos' = body_pos + 1
    /\ UNCHANGED <<main_pc, phase, epoch, batch, n_train, n_test, opt_params>>
    /\ UNCHANGED <<pf_vars, init_vars, fw_vars>>

\* line 186
MainBackward ==
    /\ AtStep("backward")
    /\ params' = Backward(params)
    /\ batch_log' = Append(batch_log, "backward")
    /\ body_pos' = body_pos + 1
    /\ UNCHANGED <<main_pc, phase, epoch, batch, n_train, n_test, opt_params>>
    /\ UNCHANGED <<pf_vars, init_vars, fw_vars>>

\* line 187
MainStep ==
    /\ AtStep("step")
    /\ params' = AdamStep(params)
    /\ batch_log' = Append(batch_log, "step")
    /\ body_pos' = body_pos + 1
    /\ UNCHANGED <<main_pc, phase, epoch, batch, n_train, n_test, opt_params>>
    /\ UNCHANGED <<pf_vars, init_vars, fw_vars>>

\* lines 178 and 194: the loop takes the next batch, or ends
MainNextBatch ==
    /\ main_pc = "body"
    /\ body_pos = Len(Body) + 1
    /\ batch' = batch + 1
    /\ batch_log' = <<>>
    /\ body_pos' = 1
    /\ main_pc' = IF batch + 1 < NBatches THEN "body"
                  ELSE IF phase = "train" THEN "epoch_end" ELSE "test_end"
    /\ UNCHANGED <<phase, epoch, n_train, n_test, params, opt_params>>
    /\ UNCHANGED <<pf_vars, init_vars, fw_vars>>

\* lines 188 and 176: the epoch ends; the next one begins, or (line 191) the test loop
MainEpochEnd ==
    /\ main_pc = "epoch_end"
    /\ epoch' = epoch + 1
    /\ batch' = 0
    /\ phase' = IF epoch + 1 < N_EPOCHS THEN "train" ELSE "test"
    /\ main_pc' = "body"
    /\ UNCHANGED <<body_pos, n_train, n_test, params, opt_params, batch_log>>
    /\ UNCHANGED <<pf_vars, init_vars, fw_vars>>

\* lines 203-204
MainTestEnd ==
    /\ main_pc = "test_end"
    /\ main_pc' = "done"
    /\ UNCHANGED <<body_pos, phase, epoch, batch, n_train, n_test, params, opt_params, batch_log>>
    /\ UNCHANGED <<pf_vars, init_vars, fw_vars>>

\* main, with loaders of any length
TrainInit ==
    /\ main_pc = "model" /\ body_pos = 0 /\ phase = "none" /\ epoch = 0 /\ batch = 0
    /\ n_train \in 1..MaxBatches /\ n_test \in 1..MaxBatches
    /\ params = <<>> /\ opt_params = {} /\ batch_log = <<>>
    /\ PfIdle /\ InitIdle /\ FwIdle

TrainNext ==
    \/ MainModel \/ MainOptimizer \/ MainForward \/ MainLoss \/ MainZeroGrad
    \/ MainBackward \/ MainStep \/ MainNextBatch \/ MainEpochEnd \/ MainTestEnd

SpecTrain == TrainInit /\ [][TrainNext]_vars

(***************************************************************************)
(* Claims about main, under SpecTrain                                      *)
(***************************************************************************)
Constructed == main_pc \notin {"idle", "model"}
OptimizerMade == main_pc \notin {"idle", "model", "optimizer"}

\* C6, as stated: after construction and after any sequence of forward passes,
\* backward passes and optimizer steps, the positional table is the table
\* computed at construction, its gradient flag is disabled, and it is not in
\* the parameter set handed to the optimizer.
C6_PosEmbedNotHandedToOptimizer ==
    Constructed =>
        /\ params["pos_embed"].value = 0
        /\ ~params["pos_embed"].requires_grad
        /\ "pos_embed" \notin opt_params

\* C6, amended: after construction and after any sequence of forward passes,
\* backward passes and optimizer steps, the positional table is the table
\* computed at construction, its gradient flag is disabled and it has no
\* gradient; it is in the parameter set handed to the optimizer, whose steps
\* pass over it.
C6_PosEmbedFixed ==
    Constructed =>
        /\ params["pos_embed"].value = 0
        /\ ~params["pos_embed"].requires_grad
        /\ params["pos_embed"].grad = "None"
        /\ OptimizerMade => "pos_embed" \in opt_params

C6_Witness ==
    /\ main_pc = "done"
    /\ params["pos_embed"].value = 0
    /\ params["class_token"].value = N_EPOCHS * n_train
    /\ n_train > 1

\* the number of optimizer steps that name has undergone
Updates(name) == params[name].value

\* C10: parameters change only in an optimizer step of the training loop; the
\* step comes after the forward pass, loss, gradient reset and backward pass of
\* its batch, and before the forward pass of the next batch (at every forward
\* pass of the training loop each trainable parameter has undergone exactly one
\* step per earlier batch); the test loop performs no step.
C10_StepOrder ==
    /\ [][(Constructed /\ \E name \in ParamNames : params'[name].value # params[name].value)
            => /\ phase = "train"
               /\ batch_log = <<"forward", "loss", "zero_grad", "backward">>
               /\ batch_log' = Append(batch_log, "step")]_vars
    /\ [](AtStep("forward") =>
            /\ batch_log = <<>>
            /\ \A name \in ParamNames \ {"pos_embed"} :
                  Updates(name) = IF phase = "train" THEN epoch * n_train + batch
                                  ELSE N_EPOCHS * n_train)
    /\ [](phase = "test" => "step" \notin {batch_log[k] : k \in 1..Len(batch_log)})

C10_Witness ==
    /\ AtStep("forward") /\ phase = "train" /\ epoch = 1 /\ batch = 1
    /\ Updates("mlp") = n_train + 1

====
